---- MODULE Spec2Model ----
(***************************************************************************)
(* Model of YoutubeInfoImporter (src/youtubeinfoimporter.py).              *)
(*                                                                         *)
(* The importer is single-threaded and blocks on every HTTP GET.  A state  *)
(* of the model is the importer's catalog (videos_dict), the frame of the  *)
(* call in progress (arguments and locals) and the endpoint whose response *)
(* the call is blocked on.  One action starts each public method, and one  *)
(* action per endpoint receives a response and runs the code up to the     *)
(* next request, the return or the raise.  The responses are the inputs:   *)
(* they are drawn from bounded sets and their fields are independent,      *)
(* since the code reads them without cross-checking.                       *)
(*                                                                         *)
(* Python values: an optional value is <<>> (None) or <<x>>; a date text   *)
(* is a tuple of one-character strings; other texts are TLA+ strings.      *)
(* import_videos_from_channel calls its helpers through the module global  *)
(* yt, which the script binds to the one importer it creates               *)
(* (lines 224-225): yt and self are the same object here.                  *)
(***************************************************************************)
EXTENDS Integers, Sequences, FiniteSets, TLC

VARIABLES
    videos_dict,      \* self.videos_dict: channel id -> entry (line 36)
    pc,               \* "idle", or the endpoint the call is blocked on
    op,               \* the public method in progress or last finished
    channel_name,     \* argument of get_channel_id / import
    channel_id,       \* optional argument, or the resolved id
    http_response,    \* send_request's response: its status, whether it is JSON
    response_as_json, \* get_channel_id's decoded lookup response (line 95)
    published_after,  \* optional argument
    next_page_token,  \* locals of get_channel_videos_ids (lines 125-166)
    list_videos,
    nb_iter,
    max_iter,
    response,         \* the decoded search response last received
    videos,           \* line 216: the listing import iterates over
    v_idx,            \* position of the for loop of line 217 (0: not in it)
    video_id,         \* argument of get_video_info
    outcome,          \* how the last finished call ended
    url,              \* the request last sent (lines 94, 133-144, 184)
    requests,         \* endpoints requested by the call, in order
    first_total,      \* totalResults of the call's first search response
    listed            \* per channel, the ids its latest import's listing gave

vars == << videos_dict, pc, op, channel_name, channel_id, http_response,
           response_as_json, published_after, next_page_token, list_videos,
           nb_iter, max_iter, response, videos, v_idx, video_id, outcome, url,
           requests, first_total, listed >>

(***************************************************************************)
(* Bounds and input domains                                                *)
(***************************************************************************)
\* Largest page count the reported totals ask for, for a listing called on
\* its own and for the listing of an import.
MaxPages == 3

MaxImportPages == 2

\* maxResults of the search request (line 134) and divisor of line 152.
maxResults == 50

\* Default of get_video_info's limit_description (line 174).
limit_description == 100

\* The only status send_request accepts (line 78).
HTTP_OK == 200

None == << >>
Some(x) == << x >>

ChannelNames == {"blogilates", "other"}

\* The imports are all of the channel the script imports (line 225).
ImportChannelNames == {"blogilates"}
ChannelIds == {"UC1", "UC2"}
VideoIds == {"a", "b"}
PageTokens == {"", "p2"}
ErrorCodes == {403, 500}
StatusCodes == {HTTP_OK} \cup ErrorCodes

\* totalResults values: zero, the smallest total of every page count up to
\* pages, and the largest total of that many pages.
Totals(pages) == {0} \cup {maxResults * (k - 1) + 1 : k \in 1..pages}
                     \cup {maxResults * pages}

\* Items of one search page (the code never checks a page's size).
PageItems == {<< >>, <<"b">>, <<"a", "b">>}

\* Texts given as published_after.
D_2020_12_01 == <<"2","0","2","0","-","1","2","-","0","1">>
D_2020_2_29 == <<"2","0","2","0","-","2","-","2","9">>
D_2020_13_40 == <<"2","0","2","0","-","1","3","-","4","0">>
D_2021_02_29 == <<"2","0","2","1","-","0","2","-","2","9">>
D_20201201 == <<"2","0","2","0","1","2","0","1">>
D_2020_1_1 == <<"2","0","2","0","-","1","-","1">>
D_2020_12_s5 == <<"2","0","2","0","-","1","2","-"," ","5">>
D_empty == << >>

DateTexts == {D_2020_12_01, D_2020_2_29, D_2020_13_40, D_2021_02_29,
              D_20201201, D_2020_1_1, D_2020_12_s5, D_empty}

PublishedAfterArgs == {None} \cup {Some(t) : t \in DateTexts}

\* The imports take one text of each kind: absent, empty, a date, not a date.
ImportPublishedAfterArgs ==
    {None, Some(D_empty), Some(D_2020_12_01), Some(D_2020_13_40)}
ChannelIdArgs == {None, Some("")} \cup {Some(c) : c \in ChannelIds}

(***************************************************************************)
(* datetime.datetime.strptime(text, "%Y-%m-%d") (line 142)                 *)
(***************************************************************************)
DigitChars == {"0","1","2","3","4","5","6","7","8","9"}

DigitVal(c) ==
    CASE c = "0" -> 0 [] c = "1" -> 1 [] c = "2" -> 2 [] c = "3" -> 3
      [] c = "4" -> 4 [] c = "5" -> 5 [] c = "6" -> 6 [] c = "7" -> 7
      [] c = "8" -> 8 [] c = "9" -> 9

RECURSIVE NumVal(_)
NumVal(s) ==
    IF s = << >> THEN 0
    ELSE 10 * NumVal(SubSeq(s, 1, Len(s) - 1)) + DigitVal(s[Len(s)])

AllDigits(s) == \A i \in 1..Len(s) : s[i] \in DigitChars

\* %m: 1[0-2] | 0[1-9] | [1-9]
MonthField(s) ==
    /\ Len(s) \in {1, 2}
    /\ AllDigits(s)
    /\ NumVal(s) \in 1..12

\* %d: 3[01] | [12]\d | 0[1-9] | [1-9] | " "[1-9]
DayField(s) ==
    \/ /\ Len(s) \in {1, 2}
       /\ AllDigits(s)
       /\ NumVal(s) \in 1..31
    \/ /\ Len(s) = 2
       /\ s[1] = " "
       /\ s[2] \in DigitChars \ {"0"}

DayVal(s) == IF s[1] = " " THEN DigitVal(s[2]) ELSE NumVal(s)

IsLeap(y) == (y % 4 = 0) /\ ((y % 100 # 0) \/ (y % 400 = 0))

DaysInMonth(y, m) ==
    IF m = 2 THEN (IF IsLeap(y) THEN 29 ELSE 28)
    ELSE IF m \in {4, 6, 9, 11} THEN 30 ELSE 31

\* The ways text splits as YYYY-m-d with every field matching its directive.
DateSplits(text) ==
    { mlen \in {1, 2} :
        /\ Len(text) \in {7 + mlen, 8 + mlen}
        /\ AllDigits(SubSeq(text, 1, 4))
        /\ text[5] = "-"
        /\ MonthField(SubSeq(text, 6, 5 + mlen))
        /\ text[6 + mlen] = "-"
        /\ DayField(SubSeq(text, 7 + mlen, Len(text))) }

\* The parsed date <<year, month, day>>, or <<>> where strptime raises ValueError.
strptime(text) ==
    IF DateSplits(text) = {} THEN << >>
    ELSE LET mlen == CHOOSE n \in DateSplits(text) : TRUE
             y == NumVal(SubSeq(text, 1, 4))
             m == NumVal(SubSeq(text, 6, 5 + mlen))
             d == DayVal(SubSeq(text, 7 + mlen, Len(text)))
         IN  IF y >= 1 /\ d <= DaysInMonth(y, m) THEN << y, m, d >> ELSE << >>

(***************************************************************************)
(* Exceptions and outcomes                                                 *)
(***************************************************************************)
Exc(type, msg, status) == [type |-> type, msg |-> msg, status |-> status]

NoExc == Exc("", "", 0)

\* line 80
ApiRequestError(status) == Exc("ValueError", "Error while requesting API, status_code", status)
\* line 104
ChannelNotFoundError == Exc("ValueError", "The channel id could not be retrieved", 0)
\* line 202
VideoNotFoundError == Exc("ValueError", "No information found for video", 0)
\* line 146
InvalidDateFormatError == Exc("ValueError", "Incorrect data format, should be YYYY-MM-DD", 0)
\* response.json() on a body that is not JSON (line 75)
JSONDecodeError == Exc("JSONDecodeError", "", 0)
\* response_as_json['items'][0] on an empty list (line 99)
IndexError == Exc("IndexError", "list index out of range", 0)

Return(v) == [kind |-> "return", value |-> v, exc |-> NoExc]
Raise(e) == [kind |-> "raise", value |-> << >>, exc |-> e]
NoOutcome == [kind |-> "none", value |-> << >>, exc |-> NoExc]

(***************************************************************************)
(* HTTP responses: status code, whether the body is JSON, the decoded body *)
(***************************************************************************)
Resp(status, decodable, body) ==
    [status_code |-> status, decodable |-> decodable, body |-> body]

\* channels endpoint: {pageInfo: {totalResults}, items: [{id}]}
ChannelBodies ==
    [totalResults : 0..2,
     items : {<< >>} \cup {<< c >> : c \in ChannelIds}
                     \cup {<< c, d >> : c \in ChannelIds, d \in ChannelIds}]

\* search endpoint: {pageInfo: {totalResults}, items: [{id: {videoId}}], nextPageToken?}
SearchBodies(pages) ==
    [totalResults : Totals(pages),
     items : PageItems,
     nextPageToken : {None} \cup {Some(t) : t \in PageTokens}]

\* videos endpoint: {items: [{snippet: {...}, contentDetails: {duration}}]}
\* description is the description's length; duration is <<minutes, seconds>> of PTmMsS.
LongVideo ==
    [title |-> "t1", publishedAt |-> "2020-12-02", description |-> 500,
     tags |-> "tags1", duration |-> << 5, 30 >>]

ShortVideo ==
    [title |-> "t2", publishedAt |-> "2021-01-05", description |-> 40,
     tags |-> "tags2", duration |-> << 0, 59 >>]

VideoItems == {LongVideo, ShortVideo}

\* The imports are answered with one video's details.
ImportVideoItems == {LongVideo}

VideoBodies(items) == [items : {<< >>} \cup {<< i >> : i \in items}]

EmptyChannelBody == [totalResults |-> 0, items |-> << >>]
EmptySearchBody == [totalResults |-> 0, items |-> << >>, nextPageToken |-> None]
EmptyVideoBody == [items |-> << >>]

\* The responses of an endpoint: status 200 with every body, every error
\* status with the JSON bodies of errors, and every status with a body that is
\* not JSON (body then stands for nothing).
Responses(bodies, errors, empty) ==
    {Resp(HTTP_OK, TRUE, b) : b \in bodies}
        \cup {Resp(s, TRUE, b) : s \in ErrorCodes, b \in errors}
        \cup {Resp(s, FALSE, empty) : s \in StatusCodes}

ChannelResponses ==
    Responses(ChannelBodies,
              {EmptyChannelBody, [totalResults |-> 1, items |-> << "UC1" >>]},
              EmptyChannelBody)

SearchResponses(pages) ==
    Responses(SearchBodies(pages),
              {EmptySearchBody,
               [totalResults |-> 1, items |-> << "b" >>, nextPageToken |-> None]},
              EmptySearchBody)

VideoResponses(items) ==
    Responses(VideoBodies(items), VideoBodies(items), EmptyVideoBody)

(***************************************************************************)
(* Requests                                                                *)
(***************************************************************************)
Url(endpoint, name, cid, token, after, vid) ==
    [endpoint |-> endpoint, forUsername |-> name, channelId |-> cid,
     pageToken |-> token, publishedAfter |-> after, id |-> vid]

NoUrl == Url("", "", "", None, None, "")

\* What the model keeps of an HTTP response once send_request has read it.
Seen(r) == [status_code |-> r.status_code, decodable |-> r.decodable]

NoHttpResponse == [status_code |-> 0, decodable |-> FALSE]

\* Python truth value of an optional text.
TruthyText(x) == x # None /\ x[1] # ""
TruthyDate(x) == x # None /\ x[1] # << >>

(***************************************************************************)
(* The methods, as functions of the response they receive                  *)
(***************************************************************************)
\* send_request raising for the server's errors (5xx) alone.
send_request_ServerErrorsOnly(r) ==
    IF ~r.decodable THEN Raise(JSONDecodeError)
    ELSE IF r.status_code >= 500 THEN Raise(ApiRequestError(r.status_code))
    ELSE Return(r.body)

\* send_request (lines 62-82): decode first, then look at the status.
send_request(r) ==
    IF ~r.decodable THEN Raise(JSONDecodeError)
    ELSE IF r.status_code # HTTP_OK THEN Raise(ApiRequestError(r.status_code))
    ELSE Return(r.body)

\* get_channel_id raising where line 106 only warns of several matches.
get_channel_id_Strict(r) ==
    LET res == send_request(r) IN
    IF res.kind = "raise" THEN res
    ELSE IF res.value.totalResults = 1
         THEN IF res.value.items = << >> THEN Raise(IndexError)
              ELSE Return(res.value.items[1])
         ELSE Raise(ChannelNotFoundError)

\* get_channel_id (lines 86-111) on the lookup's response.
get_channel_id(r) ==
    LET res == send_request(r) IN
    IF res.kind = "raise" THEN res
    ELSE IF res.value.totalResults > 0
         THEN IF res.value.items = << >> THEN Raise(IndexError)
              ELSE Return(res.value.items[1])
         ELSE Raise(ChannelNotFoundError)

\* isodate.parse_duration of PTmMsS, in seconds (line 196).
parse_duration(d) == 60 * d[1] + d[2]

\* description[:limit] on a description of the given length (line 193).
Truncate(len, limit) == IF len < limit THEN len ELSE limit

\* YOUTUBE_VIDEO_URL.replace("<video_id>", video_id) (lines 28, 194).
VideoUrl(v) == << "https://www.youtube.com/watch?v=", v >>

\* get_video_info returning an empty record where line 202 raises.
get_video_info_Placeholder(v, r) ==
    LET res == send_request(r) IN
    IF res.kind = "raise" THEN res
    ELSE IF res.value.items # << >>
         THEN LET i == res.value.items[1] IN
              Return([title |-> i.title,
                      publishedAt |-> i.publishedAt,
                      description |-> Truncate(i.description, limit_description),
                      url |-> VideoUrl(v),
                      tags |-> i.tags,
                      duration |-> parse_duration(i.duration)])
         ELSE Return([title |-> "", publishedAt |-> "", description |-> 0,
                      url |-> VideoUrl(v), tags |-> "", duration |-> 0])

\* get_video_info (lines 174-202) on the detail response.
get_video_info(v, r) ==
    LET res == send_request(r) IN
    IF res.kind = "raise" THEN res
    ELSE IF res.value.items # << >>
         THEN LET i == res.value.items[1] IN
              Return([title |-> i.title,
                      publishedAt |-> i.publishedAt,
                      description |-> Truncate(i.description, limit_description),
                      url |-> VideoUrl(v),
                      tags |-> i.tags,
                      duration |-> parse_duration(i.duration)])
         ELSE Raise(VideoNotFoundError)

\* math.ceil(nb_videos / 50) (line 152).
Ceil50(n) == (n + maxResults - 1) \div maxResults

\* Lines 139-146 with the ValueError swallowed.
DateError_Swallowed(pa) == FALSE

\* Lines 139-146: a given text that strptime rejects raises at line 146.
DateError(pa) == TruthyDate(pa) /\ strptime(pa[1]) = << >>

\* Lines 139-144: the publishedAfter filter of the request (rfc3339 is a
\* library call; the filter is kept as the parsed date).
DateFilter(pa) ==
    IF TruthyDate(pa) /\ ~DateError(pa) THEN Some(strptime(pa[1])) ELSE None

\* Lines 133-137: the search request of one iteration.
SearchUrl(cid, token, pa) ==
    Url("search", "", cid, IF TruthyText(token) THEN token ELSE None,
        DateFilter(pa), "")

\* Line 161 without its failsafe on the number of iterations.
LoopBreak_NoFailsafe(body, iter, max) ==
    \/ body.items = << >>
    \/ body.nextPageToken = None

\* Line 161: the loop's break condition after a page.
LoopBreak(body, iter, max) ==
    \/ body.items = << >>
    \/ iter >= max
    \/ body.nextPageToken = None

(***************************************************************************)
(* Initial state: the importer just constructed (lines 30-36)              *)
(***************************************************************************)
EmptyMap == << >>

Init ==
    /\ videos_dict = EmptyMap
    /\ pc = "idle"
    /\ op = "none"
    /\ channel_name = ""
    /\ channel_id = None
    /\ published_after = None
    /\ next_page_token = None
    /\ list_videos = << >>
    /\ nb_iter = 0
    /\ max_iter = 0
    /\ response = EmptySearchBody
    /\ videos = << >>
    /\ v_idx = 0
    /\ video_id = ""
    /\ outcome = NoOutcome
    /\ url = NoUrl
    /\ requests = << >>
    /\ first_total = None
    /\ http_response = NoHttpResponse
    /\ response_as_json = None
    /\ listed = [c \in ChannelIds |-> {}]

(***************************************************************************)
(* Steps shared by the actions                                             *)
(***************************************************************************)
\* The elements of a sequence.
Range(seq) == {seq[i] : i \in 1..Len(seq)}

\* Line 218 inside a try statement that passes over the videos not found.
Propagates_OnlyApiErrors(res) ==
    res.kind = "raise" /\ res.exc # VideoNotFoundError

\* An exception raised inside a helper leaves the method that called it: no
\* try statement encloses lines 214, 216 and 218.
Propagates(res) == res.kind = "raise"

\* The start of a public method: nothing received yet.
NoResponseYet ==
    /\ http_response' = NoHttpResponse
    /\ response_as_json' = None

\* The end of the public method in progress.
Finish(result) ==
    /\ pc' = "idle"
    /\ outcome' = result

\* get_channel_videos_ids from line 124 to the first request (line 148), for
\* a call that has sent the requests reqs so far.
EnterListing(cid, pa, reqs) ==
    /\ next_page_token' = None
    /\ list_videos' = << >>
    /\ nb_iter' = 1
    /\ max_iter' = 0
    /\ response' = EmptySearchBody
    /\ first_total' = None
    /\ IF DateError(pa)
       THEN /\ Finish(Raise(InvalidDateFormatError))
            /\ url' = url
            /\ requests' = reqs
       ELSE /\ pc' = "search"
            /\ outcome' = NoOutcome
            /\ url' = SearchUrl(cid, None, pa)
            /\ requests' = Append(reqs, "search")

\* Lines 217-218 of import_videos_from_channel: the for loop from its start
\* to the first detail request, or the return when the listing is empty.
EnterDetailLoop(listing) ==
    /\ videos' = listing
    /\ IF listing = << >>
       THEN /\ v_idx' = 0
            /\ Finish(Return(None))
            /\ UNCHANGED << url, requests >>
       ELSE /\ v_idx' = 1
            /\ pc' = "videos"
            /\ outcome' = NoOutcome
            /\ url' = Url("videos", "", "", None, None, listing[1])
            /\ requests' = Append(requests, "videos")

\* Line 215: the channel's entry is created or replaced, empty.
NewEntry(name) == [channel_title |-> name, videos |-> EmptyMap]

\* Line 215 keeping the videos of an entry that exists.
PutEntry_Merge(dict, cid, name) ==
    IF cid \in DOMAIN dict THEN [dict EXCEPT ![cid].channel_title = name]
    ELSE (cid :> NewEntry(name)) @@ dict

\* Line 215 building the whole catalog anew.
PutEntry_Fresh(dict, cid, name) == (cid :> NewEntry(name))

PutEntry(dict, cid, name) == (cid :> NewEntry(name)) @@ dict

\* Line 218: the record is stored under its identifier.
PutVideo(dict, cid, v, rec) ==
    [dict EXCEPT ![cid].videos = (v :> rec) @@ @]

listing_frame == << next_page_token, list_videos, nb_iter, max_iter,
                    response, first_total >>

\* No listing in progress: the locals of get_channel_videos_ids are unbound.
NoListing ==
    /\ next_page_token' = None
    /\ list_videos' = << >>
    /\ nb_iter' = 0
    /\ max_iter' = 0
    /\ response' = EmptySearchBody
    /\ first_total' = None

\* No for loop in progress.
NoLoop ==
    /\ videos' = << >>
    /\ v_idx' = 0

(***************************************************************************)
(* Calls of the public methods                                             *)
(***************************************************************************)
\* get_channel_id(channel_name), up to its request (line 95).
Call_get_channel_id(name) ==
    /\ pc = "idle"
    /\ NoResponseYet
    /\ UNCHANGED listed
    /\ op' = "get_channel_id"
    /\ channel_name' = name
    /\ channel_id' = None
    /\ published_after' = None
    /\ video_id' = ""
    /\ pc' = "channels"
    /\ outcome' = NoOutcome
    /\ url' = Url("channels", name, "", None, None, "")
    /\ requests' = << "channels" >>
    /\ NoListing
    /\ NoLoop
    /\ UNCHANGED videos_dict

\* get_channel_videos_ids(channel_id, published_after), up to its first request.
Call_get_channel_videos_ids(cid, pa) ==
    /\ pc = "idle"
    /\ NoResponseYet
    /\ UNCHANGED listed
    /\ op' = "get_channel_videos_ids"
    /\ channel_name' = ""
    /\ channel_id' = Some(cid)
    /\ published_after' = pa
    /\ video_id' = ""
    /\ EnterListing(cid, pa, << >>)
    /\ NoLoop
    /\ UNCHANGED videos_dict

\* get_video_info(video_id), up to its request (line 187).
Call_get_video_info(v) ==
    /\ pc = "idle"
    /\ NoResponseYet
    /\ UNCHANGED listed
    /\ op' = "get_video_info"
    /\ channel_name' = ""
    /\ channel_id' = None
    /\ published_after' = None
    /\ video_id' = v
    /\ pc' = "videos"
    /\ outcome' = NoOutcome
    /\ url' = Url("videos", "", "", None, None, v)
    /\ requests' = << "videos" >>
    /\ NoListing
    /\ NoLoop
    /\ UNCHANGED videos_dict

\* import_videos_from_channel(channel_name, channel_id, published_after), up
\* to its first request: the channel lookup when no id is given (lines
\* 213-214), else the entry's creation and the listing (lines 215-216).
Call_import_videos_from_channel(name, cid, pa) ==
    /\ pc = "idle"
    /\ NoResponseYet
    /\ op' = "import_videos_from_channel"
    /\ channel_name' = name
    /\ channel_id' = cid
    /\ published_after' = pa
    /\ video_id' = ""
    /\ NoLoop
    /\ IF ~TruthyText(cid)
       THEN /\ pc' = "channels"
            /\ outcome' = NoOutcome
            /\ url' = Url("channels", name, "", None, None, "")
            /\ requests' = << "channels" >>
            /\ NoListing
            /\ UNCHANGED << videos_dict, listed >>
       ELSE /\ videos_dict' = PutEntry(videos_dict, cid[1], name)
            /\ listed' = [listed EXCEPT ![cid[1]] = {}]
            /\ EnterListing(cid[1], pa, << >>)

(***************************************************************************)
(* Responses                                                               *)
(***************************************************************************)
\* The channel lookup answers: get_channel_id from line 95 on, and for an
\* import lines 215-216 up to the first search request.
ChannelsResponse(r) ==
    /\ pc = "channels"
    /\ http_response' = Seen(r)
    /\ LET res == get_channel_id(r) IN
       IF op = "get_channel_id" \/ Propagates(res)
       THEN /\ Finish(res)
            /\ response_as_json' = IF send_request(r).kind = "raise" THEN None
                                   ELSE Some(r.body)
            /\ UNCHANGED << videos_dict, channel_id, listing_frame, url, requests,
                            listed >>
       ELSE /\ response_as_json' = None
            /\ channel_id' = Some(res.value)
            /\ videos_dict' = PutEntry(videos_dict, res.value, channel_name)
            /\ listed' = [listed EXCEPT ![res.value] = {}]
            /\ EnterListing(res.value, published_after, requests)
    /\ UNCHANGED << op, channel_name, published_after, video_id, videos, v_idx >>

\* A search page answers: lines 148-166 and the next iteration up to its
\* request, or the return of the listing.  In an import the listing's frame
\* is gone once it has returned, and the for loop of line 217 starts.
SearchResponse(r) ==
    /\ pc = "search"
    /\ http_response' = Seen(r)
    /\ LET res == send_request(r) IN
       IF Propagates(res)
       THEN /\ Finish(res)
            /\ UNCHANGED << listing_frame, videos, v_idx, url, requests, listed >>
       ELSE LET body == res.value
                max == Ceil50(body.totalResults)
                list == IF body.items # << >> THEN list_videos \o body.items
                        ELSE list_videos
            IN  IF LoopBreak(body, nb_iter, max)
                THEN IF op = "get_channel_videos_ids"
                     THEN /\ response' = body
                          /\ max_iter' = max
                          /\ list_videos' = list
                          /\ first_total' = IF nb_iter = 1 THEN Some(body.totalResults)
                                            ELSE first_total
                          /\ Finish(Return(list))
                          /\ UNCHANGED << next_page_token, nb_iter, videos, v_idx,
                                          url, requests, listed >>
                     ELSE /\ NoListing
                          /\ listed' = [listed EXCEPT ![channel_id[1]] = Range(list)]
                          /\ EnterDetailLoop(list)
                ELSE /\ response' = body
                     /\ max_iter' = max
                     /\ list_videos' = list
                     /\ first_total' = IF nb_iter = 1 THEN Some(body.totalResults)
                                       ELSE first_total
                     /\ next_page_token' = body.nextPageToken
                     /\ nb_iter' = nb_iter + 1
                     /\ UNCHANGED << videos, v_idx, listed >>
                     /\ IF DateError(published_after)
                        THEN /\ Finish(Raise(InvalidDateFormatError))
                             /\ UNCHANGED << url, requests >>
                        ELSE /\ pc' = "search"
                             /\ outcome' = NoOutcome
                             /\ url' = SearchUrl(channel_id[1], body.nextPageToken,
                                                 published_after)
                             /\ requests' = Append(requests, "search")
    /\ UNCHANGED << videos_dict, op, channel_name, channel_id, published_after,
                    video_id, response_as_json >>

\* The video being fetched.
CurrentVideo == IF op = "get_video_info" THEN video_id ELSE videos[v_idx]

\* A detail request answers: get_video_info from line 187 on, and for an
\* import line 218 and the loop up to the next detail request or the return.
VideosResponse(r) ==
    /\ pc = "videos"
    /\ http_response' = Seen(r)
    /\ LET res == get_video_info(CurrentVideo, r) IN
       IF op = "get_video_info" \/ Propagates(res)
       THEN /\ Finish(res)
            /\ UNCHANGED << videos_dict, v_idx, url, requests >>
       ELSE /\ videos_dict' = PutVideo(videos_dict, channel_id[1], CurrentVideo,
                                       res.value)
            /\ IF v_idx < Len(videos)
               THEN /\ v_idx' = v_idx + 1
                    /\ pc' = "videos"
                    /\ outcome' = NoOutcome
                    /\ url' = Url("videos", "", "", None, None, videos[v_idx + 1])
                    /\ requests' = Append(requests, "videos")
               ELSE /\ Finish(Return(None))
                    /\ UNCHANGED << v_idx, url, requests >>
    /\ UNCHANGED << op, channel_name, channel_id, published_after, video_id,
                    listing_frame, videos, response_as_json, listed >>

(***************************************************************************)
(* Specification                                                           *)
(***************************************************************************)
\* The three read methods called on their own.
NextRead ==
    \/ \E name \in ChannelNames : Call_get_channel_id(name)
    \/ \E cid \in ChannelIds, pa \in PublishedAfterArgs :
           Call_get_channel_videos_ids(cid, pa)
    \/ \E v \in VideoIds : Call_get_video_info(v)
    \/ \E r \in ChannelResponses : ChannelsResponse(r)
    \/ \E r \in SearchResponses(MaxPages) : SearchResponse(r)
    \/ \E r \in VideoResponses(VideoItems) : VideosResponse(r)

\* Imports, one after the other.
NextImport ==
    \/ \E name \in ImportChannelNames, cid \in ChannelIdArgs,
          pa \in ImportPublishedAfterArgs :
           Call_import_videos_from_channel(name, cid, pa)
    \/ \E r \in ChannelResponses : ChannelsResponse(r)
    \/ \E r \in SearchResponses(MaxImportPages) : SearchResponse(r)
    \/ \E r \in VideoResponses(ImportVideoItems) : VideosResponse(r)

Next == NextRead \/ NextImport

Spec == Init /\ [][Next]_vars

SpecRead == Init /\ [][NextRead]_vars

SpecImport == Init /\ [][NextImport]_vars

(***************************************************************************)
(* Properties of get_channel_videos_ids, checked under SpecRead            *)
(***************************************************************************)
Listing == op = "get_channel_videos_ids"

\* The search requests the call has issued.
SearchRequests == Len(SelectSeq(requests, LAMBDA e : e = "search"))

\* C1: a listing whose first page reports T results issues at most
\* ceil(T / 50) search requests, whatever the later responses are.  (Stated
\* for T >= 1: the request that reports T = 0 has been issued already.)
C1_RequestsWithinFirstTotal ==
    (Listing /\ first_total # None /\ first_total[1] >= 1)
        => SearchRequests <= Ceil50(first_total[1])

\* C2, as claimed: when the first search response reports totalResults = 0,
\* the listing returns the empty sequence after exactly one search request.
C2_ZeroTotalReturnsEmpty ==
    (Listing /\ first_total = Some(0))
        => /\ pc = "idle"
           /\ outcome = Return(<< >>)
           /\ SearchRequests = 1

\* C2, amended: when the first search response reports totalResults = 0, the
\* listing ends after exactly one search request and returns the identifiers
\* of that response's items: the empty sequence when it carries none.
C2_ZeroTotalReturnsFirstPage ==
    (Listing /\ first_total = Some(0))
        => /\ pc = "idle"
           /\ outcome = Return(response.items)
           /\ SearchRequests = 1

\* A first page reporting no results, carrying no items but a continuation
\* token: the listing has returned the empty sequence.
C2_Witness ==
    /\ Listing
    /\ first_total = Some(0)
    /\ response.items = << >>
    /\ response.nextPageToken # None
    /\ outcome = Return(<< >>)
    /\ requests = << "search" >>

\* C3: after a page is received, another search request is issued if and only
\* if the page had an item, the pages fetched are fewer than the maximum
\* computed from the first page's total, ceil(T / 50), and the response
\* carries a continuation token.
C3_NextRequestIffAllThree ==
    [][ (Listing /\ pc = "search" /\ outcome'.kind # "raise")
          => /\ SearchRequests' \in {SearchRequests, SearchRequests + 1}
             /\ (SearchRequests' = SearchRequests + 1)
                  <=> ( /\ response'.items # << >>
                        /\ nb_iter < Ceil50(first_total'[1])
                        /\ response'.nextPageToken # None )
      ]_vars

(***************************************************************************)
(* Properties of get_channel_id and send_request, checked under SpecRead   *)
(***************************************************************************)
\* C4, as claimed: get_channel_id raises the not-found error when the lookup
\* reports zero matches, and returns the first item's id, without raising,
\* whenever it reports one or more.
C4_FirstMatchWheneverReported ==
    (op = "get_channel_id" /\ response_as_json # None)
        => LET body == response_as_json[1] IN
           /\ body.totalResults = 0 => outcome = Raise(ChannelNotFoundError)
           /\ body.totalResults >= 1
                => /\ outcome.kind = "return"
                   /\ body.items # << >>
                   /\ outcome.value = body.items[1]

\* C4, amended: get_channel_id raises the not-found error when the lookup
\* reports zero matches, and returns the first item's id, without raising,
\* whenever it reports one or more and carries at least one item.
C4_FirstMatchWhenCarried ==
    (op = "get_channel_id" /\ response_as_json # None)
        => LET body == response_as_json[1] IN
           /\ body.totalResults = 0 => outcome = Raise(ChannelNotFoundError)
           /\ (body.totalResults >= 1 /\ body.items # << >>)
                => outcome = Return(body.items[1])

\* A lookup that reported two matches with different ids: the first is returned.
C4_Witness ==
    /\ op = "get_channel_id"
    /\ response_as_json # None
    /\ response_as_json[1].totalResults = 2
    /\ response_as_json[1].items = << "UC2", "UC1" >>
    /\ outcome = Return("UC2")

\* C5, as claimed: a response with a status other than success ends the read
\* method with the API request error carrying that status, whatever its body.
C5_ErrorStatusAnyBody ==
    (http_response.status_code \notin {0, HTTP_OK})
        => /\ pc = "idle"
           /\ outcome = Raise(ApiRequestError(http_response.status_code))

\* C5, amended: a response with a status other than success and a body that
\* decodes as JSON ends the read method with the API request error carrying
\* that status; nothing is returned.
C5_ErrorStatusJsonBody ==
    (http_response.status_code \notin {0, HTTP_OK} /\ http_response.decodable)
        => /\ pc = "idle"
           /\ outcome = Raise(ApiRequestError(http_response.status_code))

\* A detail request answered 403 with a JSON body.
C5_Witness ==
    /\ op = "get_video_info"
    /\ http_response = [status_code |-> 403, decodable |-> TRUE]
    /\ outcome = Raise(ApiRequestError(403))

\* A text in YYYY-MM-DD form that names a calendar date: four digits, a dash,
\* two digits, a dash, two digits, the month in 1..12 and the day in the month.
IsYYYYMMDD(text) ==
    /\ Len(text) = 10
    /\ text[5] = "-"
    /\ text[8] = "-"
    /\ AllDigits(SubSeq(text, 1, 4))
    /\ AllDigits(SubSeq(text, 6, 7))
    /\ AllDigits(SubSeq(text, 9, 10))
    /\ NumVal(SubSeq(text, 6, 7)) \in 1..12
    /\ NumVal(SubSeq(text, 9, 10)) \in
           1..DaysInMonth(NumVal(SubSeq(text, 1, 4)), NumVal(SubSeq(text, 6, 7)))

\* The texts that are not a valid YYYY-MM-DD calendar date, and those among
\* them that are not empty and that strptime does not read as a date either.
NotADate == {t \in DateTexts : ~IsYYYYMMDD(t)}
NotADateNorRead == {t \in NotADate : t # << >> /\ strptime(t) = << >>}

\* C6, as claimed: a listing given a published_after that is not a valid
\* YYYY-MM-DD date raises the date format error, and has sent no request.
C6_InvalidDateRaises ==
    (Listing /\ published_after \in {Some(t) : t \in NotADate})
        => /\ pc = "idle"
           /\ outcome = Raise(InvalidDateFormatError)
           /\ requests = << >>

\* C6, amended: a listing given a non-empty published_after that strptime
\* with "%Y-%m-%d" does not read as a calendar date (a four-digit year, a
\* month and a day of one or two digits, the day possibly space-padded)
\* raises the date format error, and has sent no request.
C6_UnreadDateRaises ==
    (Listing /\ published_after \in {Some(t) : t \in NotADateNorRead})
        => /\ pc = "idle"
           /\ outcome = Raise(InvalidDateFormatError)
           /\ requests = << >>

\* A listing asked for the videos after 29 February 2021, a text the amended
\* claim covers; "2020-2-29", not in YYYY-MM-DD form but read by strptime, is
\* a text it leaves out.
C6_Witness ==
    /\ Listing
    /\ published_after = Some(D_2021_02_29)
    /\ D_2021_02_29 \in NotADateNorRead
    /\ D_2020_2_29 \in NotADate \ NotADateNorRead
    /\ outcome = Raise(InvalidDateFormatError)
    /\ requests = << >>

(***************************************************************************)
(* Properties of import_videos_from_channel, checked under SpecImport      *)
(***************************************************************************)
Importing == op = "import_videos_from_channel"

\* The detail requests the call has issued.
DetailRequests == Len(SelectSeq(requests, LAMBDA e : e = "videos"))

\* The records get_video_info builds for video v from the details the model
\* draws: the 500 characters cut to 100, PT5M30S as 330 seconds.
CompleteRecords(v) ==
    {[title |-> "t1", publishedAt |-> "2020-12-02", description |-> 100,
      url |-> << "https://www.youtube.com/watch?v=", v >>, tags |-> "tags1",
      duration |-> 330],
     [title |-> "t2", publishedAt |-> "2021-01-05", description |-> 40,
      url |-> << "https://www.youtube.com/watch?v=", v >>, tags |-> "tags2",
      duration |-> 59]}

RecordFields == {"title", "publishedAt", "description", "url", "tags", "duration"}

IsCompleteRecord(v, rec) == DOMAIN rec = RecordFields /\ rec \in CompleteRecords(v)

\* The video mapping of the channel being imported.
ImportedVideos == videos_dict[channel_id[1]].videos

\* C7: when an import returns, the keys of the channel's video mapping are
\* exactly the identifiers the listing returned, each with its record.
C7_KeysAreListedIds ==
    (Importing /\ pc = "idle" /\ outcome.kind = "return")
        => /\ channel_id[1] \in DOMAIN videos_dict
           /\ DOMAIN ImportedVideos = Range(videos)
           /\ \A v \in DOMAIN ImportedVideos : IsCompleteRecord(v, ImportedVideos[v])

\* An import whose listing gave a, b and b again has returned: two records.
C7_Witness ==
    /\ Importing
    /\ pc = "idle"
    /\ outcome.kind = "return"
    /\ videos = << "a", "b", "b" >>
    /\ DOMAIN ImportedVideos = {"a", "b"}

\* C8: in every state, every record of a channel's entry is keyed by an
\* identifier the listing of the channel's latest import returned, and is a
\* complete record of that video.
C8_RecordsAreListedAndComplete ==
    \A c \in DOMAIN videos_dict :
        \A v \in DOMAIN videos_dict[c].videos :
            /\ v \in listed[c]
            /\ IsCompleteRecord(v, videos_dict[c].videos[v])

\* Both channels imported, the import of UC1 stopped by a failed detail fetch
\* after its first record.
C8_Witness ==
    /\ DOMAIN videos_dict = ChannelIds
    /\ DOMAIN videos_dict["UC2"].videos = {"a", "b"}
    /\ DOMAIN videos_dict["UC1"].videos = {"a"}
    /\ listed["UC1"] = {"a", "b"}
    /\ pc = "idle"
    /\ outcome.kind = "raise"

\* C9: when a detail fetch of an import fails, the call ends there with that
\* error: the detail requests issued are those up to the failing one, and the
\* entry holds exactly the records of the listed identifiers before it.
C9_FirstFailureAborts ==
    (Importing /\ pc = "idle" /\ outcome.kind = "raise" /\ v_idx >= 1)
        => /\ DetailRequests = v_idx
           /\ channel_id[1] \in DOMAIN videos_dict
           /\ DOMAIN ImportedVideos = {videos[i] : i \in 1..(v_idx - 1)}
           /\ \A v \in DOMAIN ImportedVideos : IsCompleteRecord(v, ImportedVideos[v])
           /\ (http_response.decodable /\ http_response.status_code = HTTP_OK)
                => outcome.exc = VideoNotFoundError
           /\ (http_response.decodable /\ http_response.status_code # HTTP_OK)
                => outcome.exc = ApiRequestError(http_response.status_code)

\* The listing gave a, b, b and the second detail fetch found no video.
C9_Witness ==
    /\ Importing
    /\ pc = "idle"
    /\ outcome = Raise(VideoNotFoundError)
    /\ videos = << "a", "b", "b" >>
    /\ v_idx = 2
    /\ DOMAIN ImportedVideos = {"a"}
    /\ DetailRequests = 2

\* C10: no step removes an entry, no step changes the entry of a channel other
\* than the one being imported, and while the import has no channel id (its
\* lookup is pending or has failed) no entry changes.
C10_OtherEntriesUnchanged ==
    [][ /\ DOMAIN videos_dict \subseteq DOMAIN videos_dict'
        /\ \A c \in DOMAIN videos_dict :
               (~TruthyText(channel_id') \/ channel_id'[1] # c)
                   => videos_dict'[c] = videos_dict[c]
        /\ ~TruthyText(channel_id') => videos_dict' = videos_dict
      ]_vars

\* An import whose channel lookup found nothing, with both channels' videos
\* in the catalog.
C10_Witness ==
    /\ Importing
    /\ pc = "idle"
    /\ outcome = Raise(ChannelNotFoundError)
    /\ DOMAIN videos_dict = ChannelIds
    /\ \A c \in ChannelIds : DOMAIN videos_dict[c].videos # {}

====
